---- MODULE Spec2Model ----
(***************************************************************************)
(* A model of mandel.py: the escape-time evaluator (mandelbrot), the row   *)
(* worker (compute_row), the parallel grid generator (generate_mandelbrot) *)
(* and the viewport handlers of the GUI (update_plot, onselect, reset,     *)
(* zoom_back).                                                             *)
(*                                                                         *)
(* Floating-point numbers are modelled as exact rationals: rounding is not *)
(* modelled.  The inputs drawn are small rationals and the iteration caps  *)
(* are small, so every number stays far below the range of a double.       *)
(***************************************************************************)
EXTENDS Integers, Sequences, FiniteSets, TLC

(***************************************************************************)
(* Bounds of the model.                                                    *)
(***************************************************************************)
\* Largest max_iter handed to mandelbrot in SpecMandelbrot.
MaxIter == 4
\* Coordinates of the points c of SpecMandelbrot: multiples of 1/2 in
\* [-MaxCoord/2, MaxCoord/2].
MaxCoord == 6
\* Largest width, height and max_iter handed to generate_mandelbrot in
\* SpecGenerate (the smallest width and height drawn is -1).
GenMaxWidth == 3
GenMaxHeight == 3
GenMaxIter == 3
\* The resolution and the iteration cap of the GUI (800, 800 and 100 at
\* line 43), scaled down.
width == 3
height == 2
max_iter == 2
\* Longest zoom_history and timing_history the handlers are let to build.
MaxHistory == 3
MaxTimings == 3

(***************************************************************************)
(* Numbers.                                                                *)
(***************************************************************************)
Abs(n) == IF n < 0 THEN -n ELSE n

RECURSIVE GCD(_, _)
GCD(a, b) == IF b = 0 THEN a ELSE GCD(b, a % b)

\* The rational n/d (d > 0) in lowest terms: a float value.
Rat(n, d) ==
    LET g == GCD(Abs(n), d)
    IN  [num |-> n \div g, den |-> d \div g]

\* The complex number (a + b i)/d (d > 0) in lowest terms.
Cplx(a, b, d) ==
    LET g == GCD(GCD(Abs(a), Abs(b)), d)
    IN  [re |-> a \div g, im |-> b \div g, den |-> d \div g]

\* x + 1j * y for floats x and y (line 23).
complex(x, y) == Cplx(x.num * y.den, y.num * x.den, x.den * y.den)

\* abs(z) > 2 (line 14), decided exactly on the squares.
abs_gt_2(z) == z.re * z.re + z.im * z.im > 4 * z.den * z.den

\* z**2 + c (line 16).
square_plus(z, c) ==
    LET a == z.re * z.re - z.im * z.im
        b == 2 * z.re * z.im
        d == z.den * z.den
    IN  Cplx(a * c.den + c.re * d, b * c.den + c.im * d, d * c.den)

(***************************************************************************)
(* mandelbrot(c, max_iter), lines 11-17.  mandelbrot_loop is the for loop  *)
(* from iteration n on, with z the value held on entry to that iteration.  *)
(***************************************************************************)
RECURSIVE mandelbrot_loop(_, _, _, _)
mandelbrot_loop(z, c, n, m) ==
    IF n >= m THEN m
    ELSE IF abs_gt_2(z) THEN n
    ELSE mandelbrot_loop(square_plus(z, c), c, n + 1, m)

\* A plausible slip: the iteration starts from z = c instead of z = 0.
mandelbrot_from_c(c, m) == mandelbrot_loop(c, c, 0, m)

\* A plausible slip: line 17 returns the loop variable n, which is
\* max_iter - 1 once the loop has run out.
mandelbrot_returns_last_n(c, m) ==
    LET r == mandelbrot_loop(Cplx(0, 0, 1), c, 0, m)
    IN  IF r = m THEN m - 1 ELSE r

mandelbrot(c, m) == mandelbrot_loop(Cplx(0, 0, 1), c, 0, m)

(***************************************************************************)
(* np.linspace(start, stop, num), lines 29-30, for num >= 0: num evenly    *)
(* spaced samples over [start, stop], both ends included; one sample is    *)
(* start alone; none is the empty array.  A negative num raises            *)
(* ValueError (linspace_raises).  Arrays are sequences: index j of the     *)
(* code is index j + 1 here.                                               *)
(***************************************************************************)
linspace_raises(num) == num < 0

linspace(start, stop, num) ==
    [k \in 1..num |->
        IF num = 1 THEN start
        ELSE Rat(start.num * stop.den * (num - k) + stop.num * start.den * (k - 1),
                 start.den * stop.den * (num - 1))]

(***************************************************************************)
(* compute_row(i, real, imag, max_iter, width), lines 20-25.               *)
(***************************************************************************)
\* A plausible slip: the loop stops one column short (range(width - 1)).
compute_row_short(i, real, imag, m, w) ==
    [j \in 1..(w - 1) |-> mandelbrot(complex(real[j], imag[i + 1]), m)]

\* A plausible slip: the two samples change places in complex(...).
compute_row_swapped(i, real, imag, m, w) ==
    [j \in 1..w |-> mandelbrot(complex(imag[i + 1], real[j]), m)]

compute_row(i, real, imag, m, w) ==
    [j \in 1..w |-> mandelbrot(complex(real[j], imag[i + 1]), m)]

(***************************************************************************)
(* State.                                                                  *)
(***************************************************************************)
VARIABLES
    \* one call of mandelbrot
    e_pc,        \* "call": about to be called; "for": at line 13;
                 \* "done": returned
    e_c,         \* the argument c
    e_max_iter,  \* the argument max_iter
    e_ret,       \* the value returned
    e_z,         \* SpecLoop: the local z
    e_n,         \* SpecLoop: the value range(max_iter) yields next
    e_iters      \* SpecLoop: the iterations of the loop body begun

VARIABLES
    \* one call of generate_mandelbrot
    g_pc,        \* "idle": not called yet; "map": inside the with block of
                 \* line 33; "returned"; "raised"
    g_args,      \* the arguments of the call
    g_real,      \* real (line 29)
    g_imag,      \* imag (line 30)
    g_futures,   \* the futures executor.map submitted, by row index
    g_order,     \* the row indices in the order their tasks ended
    g_rows,      \* the rows list(...) has taken from the result iterator
    g_result,    \* the array returned (line 36)
    g_error,     \* the exception the call raised
    g_first      \* SpecTwoCalls: what an earlier call with the same
                 \* arguments returned, and the order its tasks ended in

VARIABLES
    \* the GUI: the module's globals and what the window shows
    heap,            \* the dict objects, by reference
    zoom_params,     \* reference to the dict zoom_params is bound to
    original_zoom,   \* reference to the dict original_zoom is bound to
    zoom_history,    \* the list zoom_history, of references
    timing_history,  \* the list timing_history
    displayed,       \* the image on the axes and its extent
    last_op,         \* the handler that ran last
    render_request,  \* the viewport that handler passed to
                     \* generate_mandelbrot, or NoRender
    raised           \* the exception that left that handler, or "none"

e_vars == <<e_pc, e_c, e_max_iter, e_ret, e_z, e_n, e_iters>>

u_vars == <<heap, zoom_params, original_zoom, zoom_history, timing_history,
            displayed, last_op, render_request, raised>>

g_vars == <<g_pc, g_args, g_real, g_imag, g_futures, g_order, g_rows,
            g_result, g_error, g_first>>

vars == <<e_vars, g_vars, u_vars>>

\* The variables of a component that is not running.
e_idle ==
    /\ e_pc = "idle"
    /\ e_c = Cplx(0, 0, 1)
    /\ e_max_iter = 0
    /\ e_ret = -1
    /\ e_z = Cplx(0, 0, 1)
    /\ e_n = 0
    /\ e_iters = 0

g_idle ==
    /\ g_pc = "idle"
    /\ g_args = <<>>
    /\ g_real = <<>>
    /\ g_imag = <<>>
    /\ g_futures = <<>>
    /\ g_order = <<>>
    /\ g_rows = <<>>
    /\ g_result = <<>>
    /\ g_error = "none"
    /\ g_first = <<>>

u_idle ==
    /\ heap = <<>>
    /\ zoom_params = 0
    /\ original_zoom = 0
    /\ zoom_history = <<>>
    /\ timing_history = <<>>
    /\ displayed = <<>>
    /\ last_op = "none"
    /\ render_request = <<>>
    /\ raised = "none"

(***************************************************************************)
(* SpecMandelbrot: one call of mandelbrot on a point of the half-integer   *)
(* lattice and a cap in 1..MaxIter.                                        *)
(***************************************************************************)
Coords == (-MaxCoord)..MaxCoord

InitMandelbrot ==
    /\ e_pc = "call"
    /\ e_c \in {Cplx(a, b, 2) : a \in Coords, b \in Coords}
    /\ e_max_iter \in 1..MaxIter
    /\ e_ret = -1
    /\ e_z = Cplx(0, 0, 1)
    /\ e_n = 0
    /\ e_iters = 0
    /\ g_idle
    /\ u_idle

CallMandelbrot ==
    /\ e_pc = "call"
    /\ e_ret' = mandelbrot(e_c, e_max_iter)
    /\ e_pc' = "done"
    /\ UNCHANGED <<e_c, e_max_iter, e_z, e_n, e_iters>>
    /\ UNCHANGED <<g_vars, u_vars>>

NextMandelbrot == CallMandelbrot

SpecMandelbrot == InitMandelbrot /\ [][NextMandelbrot]_vars

(***************************************************************************)
(* SpecLoop: the same call, one pass of the for loop at a time.  The       *)
(* interpreter keeps running the call, hence the weak fairness.            *)
(***************************************************************************)
\* Line 12: z = 0, and the for statement is reached.
enter_mandelbrot ==
    /\ e_pc = "call"
    /\ e_z' = Cplx(0, 0, 1)
    /\ e_n' = 0
    /\ e_pc' = "for"
    /\ UNCHANGED <<e_c, e_max_iter, e_ret, e_iters>>
    /\ UNCHANGED <<g_vars, u_vars>>

\* A plausible slip: z is updated before its magnitude is tested.
loop_iteration_update_first ==
    /\ e_pc = "for"
    /\ e_n < e_max_iter
    /\ e_iters' = e_iters + 1
    /\ e_z' = square_plus(e_z, e_c)
    /\ IF abs_gt_2(square_plus(e_z, e_c))
         THEN /\ e_ret' = e_n
              /\ e_pc' = "done"
              /\ UNCHANGED e_n
         ELSE /\ e_n' = e_n + 1
              /\ UNCHANGED <<e_ret, e_pc>>
    /\ UNCHANGED <<e_c, e_max_iter>>
    /\ UNCHANGED <<g_vars, u_vars>>

\* Lines 13-16: range(max_iter) yields n; the body tests z and either
\* returns n or updates z.
loop_iteration ==
    /\ e_pc = "for"
    /\ e_n < e_max_iter
    /\ e_iters' = e_iters + 1
    /\ IF abs_gt_2(e_z)
         THEN /\ e_ret' = e_n
              /\ e_pc' = "done"
              /\ UNCHANGED <<e_z, e_n>>
         ELSE /\ e_z' = square_plus(e_z, e_c)
              /\ e_n' = e_n + 1
              /\ UNCHANGED <<e_ret, e_pc>>
    /\ UNCHANGED <<e_c, e_max_iter>>
    /\ UNCHANGED <<g_vars, u_vars>>

\* Lines 13 and 17: range(max_iter) is exhausted; max_iter is returned.
loop_exhausted ==
    /\ e_pc = "for"
    /\ e_n >= e_max_iter
    /\ e_ret' = e_max_iter
    /\ e_pc' = "done"
    /\ UNCHANGED <<e_c, e_max_iter, e_z, e_n, e_iters>>
    /\ UNCHANGED <<g_vars, u_vars>>

NextLoop == enter_mandelbrot \/ loop_iteration \/ loop_exhausted

SpecLoop == InitMandelbrot /\ [][NextLoop]_vars /\ WF_vars(NextLoop)

(***************************************************************************)
(* generate_mandelbrot, lines 28-36, as the concurrent process it is.      *)
(* executor.map submits one compute_row task per row index when it is      *)
(* called; the worker processes end the tasks in any order; the iterator   *)
(* map returns yields the futures' results in submission order, each once  *)
(* its task has ended, and re-raises a task's exception; list(...) takes   *)
(* them one by one.                                                        *)
(***************************************************************************)
\* The viewports SpecGenerate draws: the start-up viewport, a viewport off
\* the real axis, one with xmin = xmax and one with ymin > ymax.
GenViewports ==
    { [xmin |-> Rat(-5, 2), xmax |-> Rat(1, 1), ymin |-> Rat(-3, 2), ymax |-> Rat(3, 2)],
      [xmin |-> Rat(-1, 1), xmax |-> Rat(1, 1), ymin |-> Rat(0, 1),  ymax |-> Rat(2, 1)],
      [xmin |-> Rat(0, 1),  xmax |-> Rat(0, 1), ymin |-> Rat(0, 1),  ymax |-> Rat(2, 1)],
      [xmin |-> Rat(-1, 1), xmax |-> Rat(1, 1), ymin |-> Rat(2, 1),  ymax |-> Rat(0, 1)] }

InitGenerate ==
    /\ g_idle
    /\ e_idle
    /\ u_idle

\* The future whose result the iterator of executor.map yields as result
\* number k (from 0): the k-th submitted, that of row k.
\* A plausible slip: results taken as the tasks end (as_completed).
result_index_as_completed(order, k) == IF k < Len(order) THEN order[k + 1] ELSE -1

result_index(order, k) == k

\* Lines 28-34: the call, up to the submission of the tasks.
generate_mandelbrot(xmin, xmax, ymin, ymax, w, h, m) ==
    /\ g_pc = "idle"
    /\ g_args' = [xmin |-> xmin, xmax |-> xmax, ymin |-> ymin, ymax |-> ymax,
                  width |-> w, height |-> h, max_iter |-> m]
    /\ IF linspace_raises(w) \/ linspace_raises(h)
       THEN /\ g_pc' = "raised"
            /\ g_error' = "ValueError"
            /\ UNCHANGED <<g_real, g_imag, g_futures>>
       ELSE /\ g_real' = linspace(xmin, xmax, w)
            /\ g_imag' = linspace(ymin, ymax, h)
            /\ g_futures' = [i \in 0..(h - 1) |-> [state |-> "pending", result |-> <<>>]]
            /\ g_pc' = "map"
            /\ UNCHANGED g_error
    /\ UNCHANGED <<g_order, g_rows, g_result>>
    /\ UNCHANGED <<e_vars, u_vars, g_first>>

\* Lines 28-34 when the pool cannot launch a task: the exception of
\* executor.map leaves the with block and the call.
generate_mandelbrot_launch_fails(xmin, xmax, ymin, ymax, w, h, m) ==
    /\ g_pc = "idle"
    /\ ~(linspace_raises(w) \/ linspace_raises(h))
    /\ h >= 1
    /\ g_args' = [xmin |-> xmin, xmax |-> xmax, ymin |-> ymin, ymax |-> ymax,
                  width |-> w, height |-> h, max_iter |-> m]
    /\ g_real' = linspace(xmin, xmax, w)
    /\ g_imag' = linspace(ymin, ymax, h)
    /\ g_pc' = "raised"
    /\ g_error' = "launch"
    /\ UNCHANGED <<g_futures, g_order, g_rows, g_result>>
    /\ UNCHANGED <<e_vars, u_vars, g_first>>

\* A worker process runs the task of row i to its end.
worker_done(i) ==
    /\ g_pc = "map"
    /\ i \in DOMAIN g_futures
    /\ g_futures[i].state = "pending"
    /\ g_futures' = [g_futures EXCEPT ![i] =
            [state |-> "finished",
             result |-> compute_row(i, g_real, g_imag, g_args.max_iter, g_args.width)]]
    /\ g_order' = Append(g_order, i)
    /\ UNCHANGED <<g_pc, g_args, g_real, g_imag, g_rows, g_result, g_error>>
    /\ UNCHANGED <<e_vars, u_vars, g_first>>

\* The task of row i ends with an exception (the worker process dies, or
\* the task cannot be carried out).
worker_failed(i) ==
    /\ g_pc = "map"
    /\ i \in DOMAIN g_futures
    /\ g_futures[i].state = "pending"
    /\ g_futures' = [g_futures EXCEPT ![i] = [state |-> "failed", result |-> <<>>]]
    /\ g_order' = Append(g_order, i)
    /\ UNCHANGED <<g_pc, g_args, g_real, g_imag, g_rows, g_result, g_error>>
    /\ UNCHANGED <<e_vars, u_vars, g_first>>

\* A plausible slip: a failed task's exception is swallowed and an empty
\* row stands in for its result.
take_result_swallows_failure ==
    /\ g_pc = "map"
    /\ Len(g_rows) < g_args.height
    /\ LET i == result_index(g_order, Len(g_rows))
       IN  /\ i \in DOMAIN g_futures
           /\ g_futures[i].state # "pending"
           /\ g_rows' = Append(g_rows, g_futures[i].result)
    /\ UNCHANGED <<g_pc, g_error, g_args, g_real, g_imag, g_futures, g_order, g_result>>
    /\ UNCHANGED <<e_vars, u_vars, g_first>>

\* list(...) takes the next result (line 34): the row is appended, or the
\* task's exception leaves the with block and the call.
take_result ==
    /\ g_pc = "map"
    /\ Len(g_rows) < g_args.height
    /\ LET i == result_index(g_order, Len(g_rows))
       IN  /\ i \in DOMAIN g_futures
           /\ g_futures[i].state # "pending"
           /\ IF g_futures[i].state = "finished"
              THEN /\ g_rows' = Append(g_rows, g_futures[i].result)
                   /\ UNCHANGED <<g_pc, g_error>>
              ELSE /\ g_pc' = "raised"
                   /\ g_error' = "worker"
                   /\ UNCHANGED g_rows
    /\ UNCHANGED <<g_args, g_real, g_imag, g_futures, g_order, g_result>>
    /\ UNCHANGED <<e_vars, u_vars, g_first>>

\* Line 36: every result taken, the array is returned.
return_array ==
    /\ g_pc = "map"
    /\ Len(g_rows) >= g_args.height
    /\ g_result' = g_rows
    /\ g_pc' = "returned"
    /\ UNCHANGED <<g_args, g_real, g_imag, g_futures, g_order, g_rows, g_error>>
    /\ UNCHANGED <<e_vars, u_vars, g_first>>

NextGenerate ==
    \/ \E v \in GenViewports, w \in (-1)..GenMaxWidth, h \in (-1)..GenMaxHeight,
          m \in 1..GenMaxIter :
            generate_mandelbrot(v.xmin, v.xmax, v.ymin, v.ymax, w, h, m)
    \/ \E v \in GenViewports, w \in (-1)..GenMaxWidth, h \in (-1)..GenMaxHeight,
          m \in 1..GenMaxIter :
            generate_mandelbrot_launch_fails(v.xmin, v.xmax, v.ymin, v.ymax, w, h, m)
    \/ \E i \in 0..(GenMaxHeight - 1) : worker_done(i)
    \/ \E i \in 0..(GenMaxHeight - 1) : worker_failed(i)
    \/ take_result
    \/ return_array

SpecGenerate == InitGenerate /\ [][NextGenerate]_vars

(***************************************************************************)
(* SpecTwoCalls: generate_mandelbrot called a second time with the         *)
(* arguments of a call that has returned; the tasks of the second call end *)
(* in an order of their own.                                               *)
(***************************************************************************)
NoCall == <<>>

call_again ==
    /\ g_pc = "returned"
    /\ g_first = NoCall
    /\ g_first' = [result |-> g_result, order |-> g_order]
    /\ g_real' = linspace(g_args.xmin, g_args.xmax, g_args.width)
    /\ g_imag' = linspace(g_args.ymin, g_args.ymax, g_args.height)
    /\ g_futures' = [i \in 0..(g_args.height - 1) |-> [state |-> "pending", result |-> <<>>]]
    /\ g_order' = <<>>
    /\ g_rows' = <<>>
    /\ g_result' = <<>>
    /\ g_pc' = "map"
    /\ UNCHANGED <<g_args, g_error>>
    /\ UNCHANGED <<e_vars, u_vars>>

\* The first call is one of the widest grid at the highest cap, of any
\* height from one row up.
NextTwoCalls ==
    \/ \E v \in GenViewports, h \in 1..GenMaxHeight :
          generate_mandelbrot(v.xmin, v.xmax, v.ymin, v.ymax, GenMaxWidth, h, GenMaxIter)
    \/ \E i \in 0..(GenMaxHeight - 1) : worker_done(i)
    \/ \E i \in 0..(GenMaxHeight - 1) : worker_failed(i)
    \/ take_result
    \/ return_array
    \/ call_again

SpecTwoCalls == InitGenerate /\ [][NextTwoCalls]_vars

(***************************************************************************)
(* The GUI, lines 39-138.  Tk's main loop (line 138) runs one handler at a *)
(* time, each to its end: a handler is one step.  An exception that leaves *)
(* a handler is reported by the main loop, which then goes on; what the    *)
(* handler had assigned before stays assigned.                             *)
(*                                                                         *)
(* The dicts are objects on a heap and the globals hold references, so     *)
(* that dict.update (in place, line 48) and dict.copy (a new object) are   *)
(* what they are in Python.  A handler is a function from the store it     *)
(* starts in to the store it leaves.                                       *)
(***************************************************************************)
Store ==
    [heap |-> heap, zoom_params |-> zoom_params, original_zoom |-> original_zoom,
     zoom_history |-> zoom_history, timing_history |-> timing_history,
     displayed |-> displayed, render_request |-> render_request, raised |-> raised]

\* The names bound in the module's namespace while the handlers run: the
\* imports (lines 1-8), the functions and the globals of lines 39-43.  ax,
\* canvas and time_text are locals of run_gui (lines 102, 118, 134).
ModuleGlobals ==
    {"np", "plt", "FigureCanvasTkAgg", "RectangleSelector", "Button", "time", "tk",
     "ttk", "ProcessPoolExecutor", "mandelbrot", "compute_row", "generate_mandelbrot",
     "zoom_params", "original_zoom", "zoom_history", "timing_history", "width",
     "height", "max_iter", "update_plot", "onselect", "reset", "zoom_back", "run_gui"}

NoRender == <<>>

\* {'xmin': xmin, 'xmax': xmax, 'ymin': ymin, 'ymax': ymax}
dict(xmin, xmax, ymin, ymax) == [xmin |-> xmin, xmax |-> xmax, ymin |-> ymin, ymax |-> ymax]

\* The start-up viewport, line 39.
StartViewport == dict(Rat(-5, 2), Rat(1, 1), Rat(-3, 2), Rat(3, 2))

\* x < y on floats.
less(x, y) == x.num * y.den < y.num * x.den

\* sorted([a, b]), lines 75-76.
sorted(a, b) == IF less(b, a) THEN <<b, a>> ELSE <<a, b>>

\* d.copy(): a new object holding d's items; its reference is Len of the
\* new heap.
copy(s, ref) == [s EXCEPT !.heap = Append(s.heap, s.heap[ref])]

\* The array generate_mandelbrot returns when no task fails: row i is
\* compute_row(i, ...).
generated(xmin, xmax, ymin, ymax, w, h, m) ==
    [i \in 1..h |->
        compute_row(i - 1, linspace(xmin, xmax, w), linspace(ymin, ymax, h), m, w)]

\* Objects no global reaches are gone, and references carry no meaning
\* beyond identity: the live objects are renumbered in the order
\* zoom_params, original_zoom, zoom_history[0], zoom_history[1], ...
collect(s) ==
    LET roots == <<s.zoom_params, s.original_zoom>> \o s.zoom_history
        live == {roots[k] : k \in 1..Len(roots)}
        first(r) == CHOOSE k \in 1..Len(roots) :
                        roots[k] = r /\ \A j \in 1..(k - 1) : roots[j] # r
        rank(r) == Cardinality({roots[j] : j \in 1..(first(r) - 1)}) + 1
        obj(n) == CHOOSE r \in live : rank(r) = n
    IN  [s EXCEPT !.heap = [n \in 1..Cardinality(live) |-> s.heap[obj(n)]],
                  !.zoom_params = rank(s.zoom_params),
                  !.original_zoom = rank(s.original_zoom),
                  !.zoom_history = [k \in 1..Len(s.zoom_history) |-> rank(s.zoom_history[k])]]

\* A plausible slip: the average (line 57) is computed before the time of
\* this render is appended (line 54).
update_plot_average_first(s, xmin, xmax, ymin, ymax, elapsed, ok) ==
    LET s1 == [s EXCEPT !.heap[s.zoom_params] = dict(xmin, xmax, ymin, ymax),
                        !.render_request = dict(xmin, xmax, ymin, ymax)]
        s2 == [s1 EXCEPT !.timing_history = Append(s1.timing_history, elapsed)]
    IN  IF ~ok THEN [s1 EXCEPT !.raised = "worker"]
        ELSE IF Len(s1.timing_history) = 0 THEN [s1 EXCEPT !.raised = "ZeroDivisionError"]
        ELSE [s2 EXCEPT !.raised = "NameError"]

\* update_plot, lines 46-71.  elapsed is the time measured (line 53); ok
\* tells whether generate_mandelbrot returned (or raised).
update_plot(s, xmin, xmax, ymin, ymax, elapsed, ok) ==
    LET s1 == [s EXCEPT !.heap[s.zoom_params] = dict(xmin, xmax, ymin, ymax),
                        !.render_request = dict(xmin, xmax, ymin, ymax)]
        s2 == [s1 EXCEPT !.timing_history = Append(s1.timing_history, elapsed)]
        s3 == [s2 EXCEPT !.displayed =
                  [extent |-> dict(xmin, xmax, ymin, ymax),
                   image |-> generated(xmin, xmax, ymin, ymax, width, height, max_iter)]]
    IN  IF ~ok THEN [s1 EXCEPT !.raised = "worker"]
        ELSE IF Len(s2.timing_history) = 0 THEN [s2 EXCEPT !.raised = "ZeroDivisionError"]
        ELSE IF "ax" \notin ModuleGlobals THEN [s2 EXCEPT !.raised = "NameError"]
        ELSE IF "time_text" \notin ModuleGlobals \/ "canvas" \notin ModuleGlobals
             THEN [s3 EXCEPT !.raised = "NameError"]
        ELSE s3

\* onselect, lines 74-78.  eclick and erelease are the press and release
\* events of the rectangle selector.
onselect(s, eclick, erelease, elapsed, ok) ==
    LET xs == sorted(eclick.xdata, erelease.xdata)
        ys == sorted(eclick.ydata, erelease.ydata)
        s1 == copy(s, s.zoom_params)
        s2 == [s1 EXCEPT !.zoom_history = Append(s1.zoom_history, Len(s1.heap))]
    IN  update_plot(s2, xs[1], xs[2], ys[1], ys[2], elapsed, ok)

\* A plausible slip: reset forgets to replace zoom_history (line 84).
reset_keeps_history(s, elapsed, ok) ==
    LET s1 == copy(s, s.original_zoom)
        s2 == [s1 EXCEPT !.zoom_params = Len(s1.heap)]
        s5 == [s2 EXCEPT !.timing_history = <<>>]
        o  == s5.heap[s5.original_zoom]
    IN  update_plot(s5, o.xmin, o.xmax, o.ymin, o.ymax, elapsed, ok)

\* A plausible slip: line 83 without .copy(): zoom_params is bound to the
\* dict original_zoom is bound to.
reset_without_copy(s, elapsed, ok) ==
    LET s2 == [s EXCEPT !.zoom_params = s.original_zoom]
        s3 == copy(s2, s2.original_zoom)
        s4 == [s3 EXCEPT !.zoom_history = <<Len(s3.heap)>>]
        s5 == [s4 EXCEPT !.timing_history = <<>>]
        o  == s5.heap[s5.original_zoom]
    IN  update_plot(s5, o.xmin, o.xmax, o.ymin, o.ymax, elapsed, ok)

\* reset, lines 81-86.
reset(s, elapsed, ok) ==
    LET s1 == copy(s, s.original_zoom)
        s2 == [s1 EXCEPT !.zoom_params = Len(s1.heap)]
        s3 == copy(s2, s2.original_zoom)
        s4 == [s3 EXCEPT !.zoom_history = <<Len(s3.heap)>>]
        s5 == [s4 EXCEPT !.timing_history = <<>>]
        o  == s5.heap[s5.original_zoom]
    IN  update_plot(s5, o.xmin, o.xmax, o.ymin, o.ymax, elapsed, ok)

\* A plausible slip: the guard of line 91 is len(zoom_history) > 0; the
\* only entry is popped and zoom_history[-1] raises IndexError.
zoom_back_pops_last(s, elapsed, ok) ==
    IF Len(s.zoom_history) > 0
    THEN LET s1 == [s EXCEPT !.zoom_history = SubSeq(s.zoom_history, 1, Len(s.zoom_history) - 1)]
             previous_zoom == s1.heap[s1.zoom_history[Len(s1.zoom_history)]]
         IN  IF Len(s1.zoom_history) = 0
             THEN [s1 EXCEPT !.raised = "IndexError"]
             ELSE update_plot(s1, previous_zoom.xmin, previous_zoom.xmax,
                              previous_zoom.ymin, previous_zoom.ymax, elapsed, ok)
    ELSE s

\* A plausible slip: only the pop is guarded; the top is rendered again
\* whatever the length.
zoom_back_always_renders(s, elapsed, ok) ==
    LET s1 == IF Len(s.zoom_history) > 1
              THEN [s EXCEPT !.zoom_history = SubSeq(s.zoom_history, 1, Len(s.zoom_history) - 1)]
              ELSE s
        previous_zoom == s1.heap[s1.zoom_history[Len(s1.zoom_history)]]
    IN  update_plot(s1, previous_zoom.xmin, previous_zoom.xmax,
                    previous_zoom.ymin, previous_zoom.ymax, elapsed, ok)

\* zoom_back, lines 89-94.
zoom_back(s, elapsed, ok) ==
    IF Len(s.zoom_history) > 1
    THEN LET s1 == [s EXCEPT !.zoom_history = SubSeq(s.zoom_history, 1, Len(s.zoom_history) - 1)]
             previous_zoom == s1.heap[s1.zoom_history[Len(s1.zoom_history)]]
         IN  update_plot(s1, previous_zoom.xmin, previous_zoom.xmax,
                         previous_zoom.ymin, previous_zoom.ymax, elapsed, ok)
    ELSE s

\* The state a handler leaves.
Leaves(op, s) ==
    LET t == collect(s)
    IN  /\ heap' = t.heap
        /\ zoom_params' = t.zoom_params
        /\ original_zoom' = t.original_zoom
        /\ zoom_history' = t.zoom_history
        /\ timing_history' = t.timing_history
        /\ displayed' = t.displayed
        /\ render_request' = t.render_request
        /\ raised' = t.raised
        /\ last_op' = op
        /\ UNCHANGED <<e_vars, g_vars>>

\* The store a handler starts in: nothing rendered, nothing raised yet.
Enters == [Store EXCEPT !.render_request = NoRender, !.raised = "none"]

\* The points of the axes the user presses and releases the mouse at.
SelectPoints ==
    { [xdata |-> Rat(-1, 1), ydata |-> Rat(0, 1)],
      [xdata |-> Rat(0, 1),  ydata |-> Rat(1, 1)],
      [xdata |-> Rat(1, 2),  ydata |-> Rat(1, 1)] }

\* The times a render is measured to take.
ElapsedTimes == {1, 2}

\* run_gui, lines 97-138, up to the main loop: the globals of lines 39-43
\* and the initial plot.
InitGui ==
    /\ heap = <<StartViewport, StartViewport, StartViewport>>
    /\ zoom_params = 1
    /\ original_zoom = 2
    /\ zoom_history = <<3>>
    /\ timing_history = <<>>
    /\ displayed = [extent |-> StartViewport,
                    image |-> generated(StartViewport.xmin, StartViewport.xmax,
                                        StartViewport.ymin, StartViewport.ymax,
                                        width, height, max_iter)]
    /\ last_op = "run_gui"
    /\ render_request = StartViewport
    /\ raised = "none"
    /\ e_idle
    /\ g_idle

\* The user drags a rectangle.
OnSelect ==
    /\ Len(zoom_history) < MaxHistory
    /\ Len(timing_history) < MaxTimings
    /\ \E eclick \in SelectPoints, erelease \in SelectPoints,
          elapsed \in ElapsedTimes, ok \in BOOLEAN :
            Leaves("onselect", onselect(Enters, eclick, erelease, elapsed, ok))

\* The user clicks Reset.
Reset ==
    \E elapsed \in ElapsedTimes, ok \in BOOLEAN :
        Leaves("reset", reset(Enters, elapsed, ok))

\* The user clicks Back.
ZoomBack ==
    /\ Len(zoom_history) > 1 => Len(timing_history) < MaxTimings
    /\ \E elapsed \in ElapsedTimes, ok \in BOOLEAN :
        Leaves("zoom_back", zoom_back(Enters, elapsed, ok))

Next == OnSelect \/ Reset \/ ZoomBack

Spec == InitGui /\ [][Next]_vars

(***************************************************************************)
(* The properties checked.                                                 *)
(***************************************************************************)
\* The current viewport: the dict zoom_params is bound to.
Current == heap[zoom_params]

\* The top entry of the history stack: zoom_history[-1].
Top == heap[zoom_history[Len(zoom_history)]]

\* xmin < xmax and ymin < ymax.
well_ordered(v) == less(v.xmin, v.xmax) /\ less(v.ymin, v.ymax)

\* The arguments generate_mandelbrot is specified for.
valid_args(a) == a.width >= 1 /\ a.height >= 1 /\ well_ordered(a)

\* C1: a Back issued while the history has more than one entry makes
\* current, and renders, the viewport that was current just before the most
\* recent zoom not yet undone.  That viewport is the entry that zoom pushed
\* (line 77), the top of the stack when Back is clicked.  Checked under
\* Spec; the code pops that entry and renders the one below it.
C1_BackRestoresPreviousZoom ==
    [][(last_op' = "zoom_back" /\ Len(zoom_history) > 1 /\ raised' # "worker")
          => (Current' = Top /\ render_request' = Top)]_vars

\* C2: right after onselect selects v, the top of the history stack is v and
\* the current viewport is v; the current viewport is always the top of the
\* history stack.  Checked under Spec, on the states a handler leaves with
\* its render done and a well-ordered viewport current; the code pushes the
\* viewport it leaves.
C2_CurrentIsTopOfHistory ==
    (raised # "worker" /\ well_ordered(Current)) =>
        /\ Top = Current
        /\ last_op = "onselect" => (Current = render_request /\ Top = render_request)

\* C3 as stated: mandelbrot(c, max_iter) = 0 whenever |c| > 2.  Checked
\* under SpecMandelbrot.
C3_EscapesAtZero ==
    (e_pc = "done" /\ abs_gt_2(e_c)) => e_ret = 0

\* C3 as amended: mandelbrot(c, max_iter) = 1 whenever |c| > 2 and
\* max_iter >= 1: z is 0 when iteration 0 tests it, and c when iteration 1
\* does.
C3_EscapesAtOne ==
    (e_pc = "done" /\ abs_gt_2(e_c)) => e_ret = 1

C3_Witness ==
    e_pc = "done" /\ abs_gt_2(e_c) /\ e_max_iter >= 2 /\ e_ret = 1

\* C4: a call of generate_mandelbrot with a non-positive width or height, or
\* a viewport that is not well ordered, ends in an error, and no task is
\* ever submitted for it.  Checked under SpecGenerate.
C4_InvalidCallRejected ==
    (g_pc # "idle" /\ ~valid_args(g_args))
        => (g_pc = "raised" /\ DOMAIN g_futures = {})

\* C5: whatever the order the tasks end in, row i of the array returned is
\* the row computed for row index i.  Checked under SpecGenerate.
C5_RowsInIndexOrder ==
    g_pc = "returned" =>
        /\ Len(g_result) = g_args.height
        /\ \A i \in 0..(g_args.height - 1) :
              g_result[i + 1] =
                  compute_row(i, linspace(g_args.xmin, g_args.xmax, g_args.width),
                              linspace(g_args.ymin, g_args.ymax, g_args.height),
                              g_args.max_iter, g_args.width)

\* Row 1 ended before row 0, and the two rows differ.
C5_Witness ==
    /\ g_pc = "returned"
    /\ g_args.height = 2
    /\ g_order = <<1, 0>>
    /\ g_result[1] # g_result[2]

\* C6: a call with valid arguments that returns, returns height rows of
\* width cells each, every cell an integer in 0..max_iter.  Checked under
\* SpecGenerate.
C6_GridShapeAndRange ==
    (g_pc = "returned" /\ valid_args(g_args)) =>
        /\ DOMAIN g_result = 1..g_args.height
        /\ \A i \in 1..g_args.height :
              /\ DOMAIN g_result[i] = 1..g_args.width
              /\ \A j \in 1..g_args.width : g_result[i][j] \in 0..g_args.max_iter

C6_Witness ==
    /\ g_pc = "returned"
    /\ valid_args(g_args)
    /\ g_args.width >= 2
    /\ g_args.height >= 2
    /\ g_args.max_iter >= 2

\* C7: zoom_history is never empty.  Checked under Spec.
C7_HistoryNeverEmpty == Len(zoom_history) >= 1

\* Back has just emptied the stack down to its one entry, after a zoom.
C7_Witness ==
    /\ last_op = "zoom_back"
    /\ Len(zoom_history) = 1
    /\ render_request # NoRender

\* C8: Back with one entry in the history changes nothing: zoom_history,
\* the current viewport, timing_history and the image shown stay as they
\* are, and no render is issued.  Checked under Spec.
C8_BackOnOneEntryChangesNothing ==
    [][(last_op' = "zoom_back" /\ Len(zoom_history) = 1)
          => /\ UNCHANGED <<heap, zoom_params, original_zoom, zoom_history,
                            timing_history, displayed>>
             /\ render_request' = NoRender]_vars

\* Back was clicked with one entry in the history.
C8_Witness ==
    /\ last_op = "zoom_back"
    /\ Len(zoom_history) = 1
    /\ render_request = NoRender

\* C9: reset leaves zoom_history holding one entry equal to the start-up
\* viewport, makes that viewport current and passes it to
\* generate_mandelbrot.  Checked under Spec.
C9_ResetRestoresStartViewport ==
    last_op = "reset" =>
        /\ Len(zoom_history) = 1
        /\ heap[zoom_history[1]] = StartViewport
        /\ Current = StartViewport
        /\ render_request = StartViewport

\* Reset has run, its render done.
C9_Witness ==
    /\ last_op = "reset"
    /\ Len(timing_history) = 1
    /\ render_request = StartViewport

\* C10: every viewport that is current, passed to generate_mandelbrot or
\* held in zoom_history has xmin < xmax and ymin < ymax.  Checked under
\* Spec; a release at the press's x or y makes a viewport that has not.
C10_ViewportsWellOrdered ==
    /\ well_ordered(Current)
    /\ \A k \in 1..Len(zoom_history) : well_ordered(heap[zoom_history[k]])
    /\ render_request # NoRender => well_ordered(render_request)

\* C11: once a task has failed, or the pool has failed to launch one, the
\* call never returns an array: it ends raising, whichever rows had been
\* taken before.  Checked under SpecGenerate.
C11_FailureFailsWholeCall ==
    /\ ((\E i \in DOMAIN g_futures : g_futures[i].state = "failed") \/ g_error # "none")
          => (g_pc # "returned" /\ g_result = <<>>)
    /\ g_pc = "returned" => Len(g_result) = g_args.height

\* The call has raised on a failed task after rows had been taken.
C11_Witness ==
    /\ g_pc = "raised"
    /\ g_error = "worker"
    /\ Len(g_rows) >= 1

\* C13: a second call with the same arguments returns the array the first
\* returned, whatever the order the tasks of each call ended in.  Checked
\* under SpecTwoCalls.
C13_SameArgumentsSameGrid ==
    (g_pc = "returned" /\ g_first # NoCall) => g_result = g_first.result

\* Both calls have returned, their tasks having ended in different orders,
\* and the grid has rows that differ.
C13_Witness ==
    /\ g_pc = "returned"
    /\ g_first # NoCall
    /\ g_first.order # g_order
    /\ g_args.height >= 2
    /\ g_result[1] # g_result[2]

\* C12: when generate_mandelbrot raises during the render of a handler, the
\* image shown is left as it was, zoom_history is not empty and holds only
\* well-ordered viewports, and original_zoom is unchanged (width, height and
\* max_iter are never assigned).  Checked under Spec; zoom_history can hold
\* a viewport that is not well ordered (C10).
C12_RenderFailureIsLocal ==
    [][raised' = "worker"
          => /\ displayed' = displayed
             /\ Len(zoom_history') >= 1
             /\ \A k \in 1..Len(zoom_history') : well_ordered(heap'[zoom_history'[k]])
             /\ heap'[original_zoom'] = heap[original_zoom]]_vars

\* C17: between handlers, the current viewport is the viewport of the image
\* shown.  Checked under Spec; update_plot changes zoom_params (line 48)
\* and never gets to draw.
C17_CurrentIsDisplayed == Current = displayed.extent

\* C18: original_zoom equals the start-up viewport and so does the bottom
\* entry of zoom_history.  Checked under Spec.
C18_OriginalUntouched ==
    /\ heap[original_zoom] = StartViewport
    /\ heap[zoom_history[1]] = StartViewport

\* Two zooms have updated zoom_params in place.
C18_Witness ==
    /\ last_op = "onselect"
    /\ Len(zoom_history) = 3
    /\ Len(timing_history) >= 2
    /\ Current # StartViewport

\* C19: no render divides by zero: ZeroDivisionError never leaves a handler,
\* and a handler whose generate_mandelbrot returned leaves timing_history
\* non-empty (run_gui renders at line 107 without update_plot and computes
\* no average).  Checked under Spec.
C19_AverageNeverDividesByZero ==
    /\ raised # "ZeroDivisionError"
    /\ (last_op # "run_gui" /\ render_request # NoRender /\ raised # "worker")
          => Len(timing_history) >= 1

\* Reset has cleared timing_history and its render has got past line 57.
C19_Witness ==
    /\ last_op = "reset"
    /\ raised = "NameError"
    /\ timing_history \in {<<1>>, <<2>>}

\* C14: mandelbrot(0, max_iter) = max_iter for every max_iter >= 1.  Checked
\* under SpecMandelbrot.
C14_ZeroNeverEscapes ==
    (e_pc = "done" /\ e_c = Cplx(0, 0, 1)) => e_ret = e_max_iter

C14_Witness ==
    e_pc = "done" /\ e_c = Cplx(0, 0, 1) /\ e_max_iter >= 2 /\ e_ret = e_max_iter

\* z_n of the claim: z_0 = 0, z_(k+1) = z_k^2 + c.
RECURSIVE orbit(_, _)
orbit(c, n) == IF n = 0 THEN Cplx(0, 0, 1) ELSE square_plus(orbit(c, n - 1), c)

\* C15: the call ends, after at most max_iter passes of the loop, and the
\* value it returns is the least n in 0..max_iter-1 with |z_n| > 2, or
\* max_iter if there is none.  Checked under SpecLoop.
C15_LeastEscapeWithinMaxIter ==
    /\ [](e_iters <= e_max_iter)
    /\ [](e_pc = "done" =>
            /\ e_ret \in 0..e_max_iter
            /\ \A n \in 0..(e_ret - 1) : ~abs_gt_2(orbit(e_c, n))
            /\ e_ret < e_max_iter => abs_gt_2(orbit(e_c, e_ret)))
    /\ <>(e_pc = "done")

\* A call that escaped neither at once nor at the cap.
C15_Witness ==
    /\ e_pc = "done"
    /\ e_ret >= 2
    /\ e_ret < e_max_iter
    /\ e_iters = e_ret + 1

\* Sample number j (from 0) of n evenly spaced samples over [lo, hi], both
\* ends included; lo alone when n = 1.
sample(lo, hi, n, j) ==
    IF n = 1 THEN lo
    ELSE Rat(lo.num * hi.den * (n - 1) + j * (hi.num * lo.den - lo.num * hi.den),
             lo.den * hi.den * (n - 1))

\* C16: in the grid a call with width >= 1 and height >= 1 returns, the cell
\* in row i and column j is the escape count of the point whose real part is
\* sample j of width over [xmin, xmax] and whose imaginary part is sample i
\* of height over [ymin, ymax].  Checked under SpecGenerate.
C16_RowIsImaginaryColumnIsReal ==
    (g_pc = "returned" /\ g_args.width >= 1 /\ g_args.height >= 1) =>
        \A i \in 0..(g_args.height - 1), j \in 0..(g_args.width - 1) :
            g_result[i + 1][j + 1]
              = mandelbrot(complex(sample(g_args.xmin, g_args.xmax, g_args.width, j),
                                   sample(g_args.ymin, g_args.ymax, g_args.height, i)),
                           g_args.max_iter)

\* A grid that is not square and varies along its rows and its columns.
C16_Witness ==
    /\ g_pc = "returned"
    /\ g_args.width >= 2
    /\ g_args.height >= 2
    /\ g_args.width # g_args.height
    /\ \E i \in 1..g_args.height : g_result[i][1] # g_result[i][g_args.width]
    /\ \E j \in 1..g_args.width : g_result[1][j] # g_result[g_args.height][j]

====
